---- MODULE Spec2Model ----
(***************************************************************************)
(* Model of train-accelerator.py: train(config), run as nproc identical    *)
(* data-parallel copies under accelerate, and its closure                  *)
(* preprocess_function.                                                    *)
(*                                                                         *)
(* Spec     : the nproc processes running train() line by line.            *)
(* LiveSpec : Spec with weak fairness of Next (while some process can take *)
(*            a step, a step is taken).                                    *)
(* PreSpec  : preprocess_function and the label collator applied to        *)
(*            bounded batches of target token sequences.                   *)
(***************************************************************************)
EXTENDS Integers, Sequences, FiniteSets, TLC

\* ---------------------------------------------------------------- bounds
MaxProcs == 2
MaxEpochs == 2
MaxTrainLen == 1
MaxTrainYield == 2
MaxEvalBatches == 1
MaxBatch == 2
MaxRawLen == 2
MaxTargetLength == 2
MaxToken == 1

\* ------------------------------------------------------ program constants
\* the ignore index written into labels (line 91) and used by the collator
IgnoreIndex == -100

VARIABLES
    config,            \* the configuration dictionary handed to train()
    nproc,             \* number of data-parallel copies accelerate launched
    decoder_start_token_id,  \* model.config.decoder_start_token_id
    train_len,         \* len(train_dataloader)
    train_yield,       \* batches the train iterator actually yields per epoch
    eval_batches,      \* batches the eval iterator yields per epoch
    pc,                \* per process: position in train()
    locals,            \* per process: names bound in train()'s frame
    error,             \* per process: exception that ended the run, or "none"
    epoch,             \* per process: loop variable of line 168
    step,              \* per process: batches taken from the train iterator
    eval_step,         \* per process: batches taken from the eval iterator
    completed_steps,   \* per process: value of completed_steps (line 166)
    max_train_steps,   \* per process: value of max_train_steps (line 149)
    metric,            \* per process: pairs held by the metric accumulator
    result,            \* per process: pairs the last metric.compute covered
    hist,              \* per process: collectives entered, in order
    passed,            \* per process: number of collectives returned from
    trained,           \* per process: epoch-training phases begun
    evaluated,         \* per process: epoch-evaluating phases finished
    work,              \* per process: kinds of work performed so far
    writes,            \* <<rank, file>> writes made to the output directory
    ppc,               \* position in preprocess_function
    pad_token_id,      \* tokenizer.pad_token_id
    targets,           \* examples[summary_column] as token sequences
    tokenized,         \* what tokenizer(targets, ...) returned
    labels_input_ids,  \* labels["input_ids"]
    model_labels,      \* model_inputs["labels"]
    collated           \* labels of the batch built by data_collator

trainVars == <<pc, locals, error, epoch, step, eval_step, completed_steps,
               max_train_steps, metric, result, hist, passed, trained,
               evaluated, work, writes>>
envVars == <<config, nproc, decoder_start_token_id, train_len, train_yield,
             eval_batches, pad_token_id, targets>>
preVars == <<ppc, tokenized, labels_input_ids, model_labels, collated>>
vars == <<config, nproc, decoder_start_token_id, train_len, train_yield,
          eval_batches, pc, locals, error, epoch, step, eval_step,
          completed_steps, max_train_steps, metric, result, hist, passed,
          trained, evaluated, work, writes, ppc, pad_token_id, targets,
          tokenized, labels_input_ids, model_labels, collated>>

Procs == 0 .. (nproc - 1)
AllProcs == 0 .. (MaxProcs - 1)

\* accelerator.is_local_main_process / the primary rank
IsMainProcess(p) == p = 0

Min(a, b) == IF a < b THEN a ELSE b
Max(a, b) == IF a < b THEN b ELSE a

\* the literal configuration of lines 244-259, restricted to the keys the
\* model reads
MainConfig ==
    [output_dir |-> "bart-samsum-model", num_train_epochs |-> 1,
     padding |-> "max_length", max_target_length |-> MaxTargetLength]

Terminal == {"done", "raised"}

\* ------------------------------------------------------------ initial state
\* every launched copy is at the top of train() with an empty frame; the
\* ranks beyond nproc are absent and never take a step
TrainInit ==
    /\ pc = [p \in AllProcs |-> IF p \in Procs THEN "start" ELSE "absent"]
    /\ locals = [p \in AllProcs |-> {}]
    /\ error = [p \in AllProcs |-> "none"]
    /\ epoch = [p \in AllProcs |-> 0]
    /\ step = [p \in AllProcs |-> 0]
    /\ eval_step = [p \in AllProcs |-> 0]
    /\ completed_steps = [p \in AllProcs |-> 0]
    /\ max_train_steps = [p \in AllProcs |-> 0]
    /\ metric = [p \in AllProcs |-> <<>>]
    /\ result = [p \in AllProcs |-> <<>>]
    /\ hist = [p \in AllProcs |-> <<>>]
    /\ passed = [p \in AllProcs |-> 0]
    /\ trained = [p \in AllProcs |-> 0]
    /\ evaluated = [p \in AllProcs |-> 0]
    /\ work = [p \in AllProcs |-> {}]
    /\ writes = {}

\* preprocess_function not called
PreIdle ==
    /\ ppc = "idle"
    /\ tokenized = <<>>
    /\ labels_input_ids = <<>>
    /\ model_labels = <<>>
    /\ collated = <<>>

Init ==
    /\ nproc \in 1 .. MaxProcs
    /\ \E e \in 0 .. MaxEpochs, o \in {"None", "bart-samsum-model"} :
          config = [MainConfig EXCEPT !.num_train_epochs = e, !.output_dir = o]
    /\ decoder_start_token_id \in {"None", "2"}
    /\ train_len \in 0 .. MaxTrainLen
    /\ train_yield \in 0 .. MaxTrainYield
    /\ eval_batches \in 0 .. MaxEvalBatches
    /\ pad_token_id = 1
    /\ targets = <<>>
    /\ TrainInit
    /\ PreIdle

\* ------------------------------------------------------------- collectives
\* A collective (the gradient all-reduce inside accelerator.backward,
\* accelerator.gather, accelerator.wait_for_everyone) returns in process p
\* once every process has entered the collective with the same index in its
\* own sequence, and it is the same collective.
EnterCollective(p, kind) == hist' = [hist EXCEPT ![p] = Append(@, kind)]

CollectiveComplete(p) ==
    \A q \in Procs :
        /\ Len(hist[q]) >= Len(hist[p])
        /\ hist[q][Len(hist[p])] = hist[p][Len(hist[p])]

LeaveCollective(p) == passed' = [passed EXCEPT ![p] = @ + 1]

\* ------------------------------------------------------------------ train()
\* lines 52-64: Accelerator(), setup_logging, output_dir, dataset,
\* tokenizer, model, resize_token_embeddings
Start(p) ==
    /\ pc[p] = "start"
    /\ pc' = [pc EXCEPT ![p] = "guard"]
    /\ locals' = [locals EXCEPT ![p] =
                     @ \cup {"accelerator", "logger", "output_dir",
                             "raw_datasets", "tokenizer", "model"}]
    /\ UNCHANGED <<error, epoch, step, eval_step, completed_steps,
                   max_train_steps, metric, result, hist, passed, trained,
                   evaluated, work, writes>>
    /\ UNCHANGED <<envVars, preVars>>

\* Guard without its raise: the run goes on whatever the token id is
Guard_NoRaise(p) ==
    /\ pc[p] = "guard"
    /\ pc' = [pc EXCEPT ![p] = "map"]
    /\ UNCHANGED <<locals, error, epoch, step, eval_step, completed_steps,
                   max_train_steps, metric, result, hist, passed, trained,
                   evaluated, work, writes>>
    /\ UNCHANGED <<envVars, preVars>>

\* lines 65-66: the decoder_start_token_id guard
Guard(p) ==
    /\ pc[p] = "guard"
    /\ IF decoder_start_token_id = "None"
          THEN /\ pc' = [pc EXCEPT ![p] = "raised"]
               /\ error' = [error EXCEPT ![p] = "ValueError"]
          ELSE /\ pc' = [pc EXCEPT ![p] = "map"]
               /\ UNCHANGED error
    /\ UNCHANGED <<locals, epoch, step, eval_step, completed_steps,
                   max_train_steps, metric, result, hist, passed, trained,
                   evaluated, work, writes>>
    /\ UNCHANGED <<envVars, preVars>>

\* lines 68-105: raw_datasets.map(preprocess_function), the two splits
Preprocess(p) ==
    /\ pc[p] = "map"
    /\ pc' = [pc EXCEPT ![p] = "setup"]
    /\ locals' = [locals EXCEPT ![p] = @ \cup {"train_dataset", "eval_dataset"}]
    /\ work' = [work EXCEPT ![p] = @ \cup {"map"}]
    /\ UNCHANGED <<error, epoch, step, eval_step, completed_steps,
                   max_train_steps, metric, result, hist, passed, trained,
                   evaluated, writes>>
    /\ UNCHANGED <<envVars, preVars>>

\* lines 107-145: collator, dataloaders, AdamW, accelerator.prepare
Setup(p) ==
    /\ pc[p] = "setup"
    /\ pc' = [pc EXCEPT ![p] = "sched"]
    /\ locals' = [locals EXCEPT ![p] =
                     @ \cup {"train_dataloader", "eval_dataloader", "optimizer"}]
    /\ work' = [work EXCEPT ![p] = @ \cup {"optimizer"}]
    /\ UNCHANGED <<error, epoch, step, eval_step, completed_steps,
                   max_train_steps, metric, result, hist, passed, trained,
                   evaluated, writes>>
    /\ UNCHANGED <<envVars, preVars>>

\* lines 148-166: max_train_steps, get_scheduler, evaluate.load("rouge"),
\* progress bar, completed_steps = 0
Scheduler(p) ==
    /\ pc[p] = "sched"
    /\ pc' = [pc EXCEPT ![p] = "epoch"]
    /\ max_train_steps' =
          [max_train_steps EXCEPT ![p] = config.num_train_epochs * train_len]
    /\ metric' = [metric EXCEPT ![p] = <<>>]
    /\ completed_steps' = [completed_steps EXCEPT ![p] = 0]
    /\ locals' = [locals EXCEPT ![p] =
                     @ \cup {"max_train_steps", "lr_scheduler", "metric",
                             "completed_steps"}]
    /\ work' = [work EXCEPT ![p] = @ \cup {"scheduler"}]
    /\ UNCHANGED <<error, epoch, step, eval_step, result, hist, passed,
                   trained, evaluated, writes>>
    /\ UNCHANGED <<envVars, preVars>>

\* lines 168-169: for epoch in range(num_train_epochs): model.train()
\* (epoch[p] is advanced where the loop body ends, in Compute)
EpochHead(p) ==
    /\ pc[p] = "epoch"
    /\ IF epoch[p] < config.num_train_epochs
          THEN /\ pc' = [pc EXCEPT ![p] = "train_iter"]
               /\ step' = [step EXCEPT ![p] = 0]
               /\ trained' = [trained EXCEPT ![p] = @ + 1]
          ELSE /\ pc' = [pc EXCEPT ![p] = "save_check"]
               /\ UNCHANGED <<step, trained>>
    /\ UNCHANGED <<locals, error, epoch, eval_step, completed_steps,
                   max_train_steps, metric, result, hist, passed, evaluated,
                   work, writes>>
    /\ UNCHANGED <<envVars, preVars>>

\* lines 170-173: the train iterator yields its next batch, which goes
\* through the forward pass into accelerator.backward, or is exhausted
Forward(p) ==
    /\ pc[p] = "train_iter"
    /\ IF step[p] < train_yield
          THEN /\ pc' = [pc EXCEPT ![p] = "backward"]
               /\ step' = [step EXCEPT ![p] = @ + 1]
               /\ EnterCollective(p, "backward")
               /\ work' = [work EXCEPT ![p] = @ \cup {"train_step"}]
          ELSE /\ pc' = [pc EXCEPT ![p] = "eval_begin"]
               /\ UNCHANGED <<step, hist, work>>
    /\ UNCHANGED <<locals, error, epoch, eval_step, completed_steps,
                   max_train_steps, metric, result, passed, trained,
                   evaluated, writes>>
    /\ UNCHANGED <<envVars, preVars>>

\* OptimizerStep whose break leaves the epoch loop as well
OptimizerStep_BreakOut(p) ==
    /\ pc[p] = "backward"
    /\ CollectiveComplete(p)
    /\ LeaveCollective(p)
    /\ completed_steps' = [completed_steps EXCEPT ![p] = @ + 1]
    /\ IF completed_steps[p] + 1 >= max_train_steps[p]
          THEN pc' = [pc EXCEPT ![p] = "save_check"]
          ELSE pc' = [pc EXCEPT ![p] = "train_iter"]
    /\ UNCHANGED <<locals, error, epoch, step, eval_step, max_train_steps,
                   metric, result, hist, trained, evaluated, work, writes>>
    /\ UNCHANGED <<envVars, preVars>>

\* lines 173-182: accelerator.backward returns, optimizer and scheduler
\* step, completed_steps += 1, break when it has reached max_train_steps
OptimizerStep(p) ==
    /\ pc[p] = "backward"
    /\ CollectiveComplete(p)
    /\ LeaveCollective(p)
    /\ completed_steps' = [completed_steps EXCEPT ![p] = @ + 1]
    /\ IF completed_steps[p] + 1 >= max_train_steps[p]
          THEN pc' = [pc EXCEPT ![p] = "eval_begin"]
          ELSE pc' = [pc EXCEPT ![p] = "train_iter"]
    /\ UNCHANGED <<locals, error, epoch, step, eval_step, max_train_steps,
                   metric, result, hist, trained, evaluated, work, writes>>
    /\ UNCHANGED <<envVars, preVars>>

\* line 184: model.eval(), and the eval iterator is created (line 186)
EvalBegin(p) ==
    /\ pc[p] = "eval_begin"
    /\ pc' = [pc EXCEPT ![p] = "eval_iter"]
    /\ eval_step' = [eval_step EXCEPT ![p] = 0]
    /\ UNCHANGED <<locals, error, epoch, step, completed_steps,
                   max_train_steps, metric, result, hist, passed, trained,
                   evaluated, work, writes>>
    /\ UNCHANGED <<envVars, preVars>>

\* lines 186-198: the eval iterator yields its next batch, which goes
\* through generate and pad_across_processes into the first gather, or is
\* exhausted
Generate(p) ==
    /\ pc[p] = "eval_iter"
    /\ IF eval_step[p] < eval_batches
          THEN /\ pc' = [pc EXCEPT ![p] = "gather_tokens"]
               /\ eval_step' = [eval_step EXCEPT ![p] = @ + 1]
               /\ EnterCollective(p, "gather_tokens")
               /\ work' = [work EXCEPT ![p] = @ \cup {"eval_step"}]
          ELSE /\ pc' = [pc EXCEPT ![p] = "compute"]
               /\ UNCHANGED <<eval_step, hist, work>>
    /\ UNCHANGED <<locals, error, epoch, step, completed_steps,
                   max_train_steps, metric, result, passed, trained,
                   evaluated, writes>>
    /\ UNCHANGED <<envVars, preVars>>

\* lines 198-199: first gather returns, second gather entered
GatherTokens(p) ==
    /\ pc[p] = "gather_tokens"
    /\ CollectiveComplete(p)
    /\ LeaveCollective(p)
    /\ pc' = [pc EXCEPT ![p] = "gather_labels"]
    /\ hist' = [hist EXCEPT ![p] = Append(@, "gather_labels")]
    /\ UNCHANGED <<locals, error, epoch, step, eval_step, completed_steps,
                   max_train_steps, metric, result, trained, evaluated, work,
                   writes>>
    /\ UNCHANGED <<envVars, preVars>>

\* lines 199-207: second gather returns, decode, metric.add_batch
\* (a pair is tagged with the epoch and the eval batch it was decoded from)
AddBatch(p) ==
    /\ pc[p] = "gather_labels"
    /\ CollectiveComplete(p)
    /\ LeaveCollective(p)
    /\ pc' = [pc EXCEPT ![p] = "eval_iter"]
    /\ metric' = [metric EXCEPT ![p] = Append(@, <<epoch[p], eval_step[p]>>)]
    /\ UNCHANGED <<locals, error, epoch, step, eval_step, completed_steps,
                   max_train_steps, result, hist, trained, evaluated, work,
                   writes>>
    /\ UNCHANGED <<envVars, preVars>>

\* Compute over an accumulator that keeps its pairs
Compute_NoReset(p) ==
    /\ pc[p] = "compute"
    /\ pc' = [pc EXCEPT ![p] = "epoch"]
    /\ result' = [result EXCEPT ![p] = metric[p]]
    /\ evaluated' = [evaluated EXCEPT ![p] = @ + 1]
    /\ epoch' = [epoch EXCEPT ![p] = @ + 1]
    /\ locals' = [locals EXCEPT ![p] = @ \cup {"result"}]
    /\ UNCHANGED <<error, step, eval_step, completed_steps, max_train_steps,
                   metric, hist, passed, trained, work, writes>>
    /\ UNCHANGED <<envVars, preVars>>

\* lines 208-215: metric.compute covers what the accumulator holds and
\* releases it; rescale, round, log; the loop body ends
Compute(p) ==
    /\ pc[p] = "compute"
    /\ pc' = [pc EXCEPT ![p] = "epoch"]
    /\ result' = [result EXCEPT ![p] = metric[p]]
    /\ metric' = [metric EXCEPT ![p] = <<>>]
    /\ evaluated' = [evaluated EXCEPT ![p] = @ + 1]
    /\ epoch' = [epoch EXCEPT ![p] = @ + 1]
    /\ locals' = [locals EXCEPT ![p] = @ \cup {"result"}]
    /\ UNCHANGED <<error, step, eval_step, completed_steps, max_train_steps,
                   hist, passed, trained, work, writes>>
    /\ UNCHANGED <<envVars, preVars>>

\* SaveCheck without the test of output_dir
SaveCheck_IgnoresNone(p) ==
    /\ pc[p] = "save_check"
    /\ pc' = [pc EXCEPT ![p] = "barrier"]
    /\ EnterCollective(p, "barrier")
    /\ UNCHANGED <<locals, error, epoch, step, eval_step, completed_steps,
                   max_train_steps, metric, result, passed, trained,
                   evaluated, work, writes>>
    /\ UNCHANGED <<envVars, preVars>>

\* SaveCheck where only the main process calls wait_for_everyone
SaveCheck_MainOnlyBarrier(p) ==
    /\ pc[p] = "save_check"
    /\ IF config.output_dir = "None"
          THEN /\ pc' = [pc EXCEPT ![p] = "pipeline"]
               /\ UNCHANGED <<hist, locals>>
          ELSE IF IsMainProcess(p)
                  THEN /\ pc' = [pc EXCEPT ![p] = "barrier"]
                       /\ EnterCollective(p, "barrier")
                       /\ UNCHANGED locals
                  ELSE /\ pc' = [pc EXCEPT ![p] = "save"]
                       /\ locals' = [locals EXCEPT ![p] = @ \cup {"unwrapped_model"}]
                       /\ UNCHANGED hist
    /\ UNCHANGED <<error, epoch, step, eval_step, completed_steps,
                   max_train_steps, metric, result, passed, trained,
                   evaluated, work, writes>>
    /\ UNCHANGED <<envVars, preVars>>

\* lines 217-218: if output_dir is not None: wait_for_everyone entered
SaveCheck(p) ==
    /\ pc[p] = "save_check"
    /\ IF config.output_dir # "None"
          THEN /\ pc' = [pc EXCEPT ![p] = "barrier"]
               /\ EnterCollective(p, "barrier")
          ELSE /\ pc' = [pc EXCEPT ![p] = "pipeline"]
               /\ UNCHANGED hist
    /\ UNCHANGED <<locals, error, epoch, step, eval_step, completed_steps,
                   max_train_steps, metric, result, passed, trained,
                   evaluated, work, writes>>
    /\ UNCHANGED <<envVars, preVars>>

\* lines 218-219: the barrier returns, unwrapped_model is bound
Unwrap(p) ==
    /\ pc[p] = "barrier"
    /\ CollectiveComplete(p)
    /\ LeaveCollective(p)
    /\ pc' = [pc EXCEPT ![p] = "save"]
    /\ locals' = [locals EXCEPT ![p] = @ \cup {"unwrapped_model"}]
    /\ UNCHANGED <<error, epoch, step, eval_step, completed_steps,
                   max_train_steps, metric, result, hist, trained, evaluated,
                   work, writes>>
    /\ UNCHANGED <<envVars, preVars>>

\* What one call of line 220 writes.  save_pretrained is called with no
\* is_main_process argument, so in every process it creates the directory
\* and writes the configuration file; the weights go through
\* save_function=accelerator.save, which writes on the main process only.
SaveWrites(p) ==
    {<<p, "config.json">>} \cup
    (IF IsMainProcess(p) THEN {<<p, "pytorch_model.bin">>} ELSE {})

\* line 220: unwrapped_model.save_pretrained(output_dir, ...)
SavePretrained(p) ==
    /\ pc[p] = "save"
    /\ pc' = [pc EXCEPT ![p] = "pipeline"]
    /\ writes' = writes \cup SaveWrites(p)
    /\ work' = [work EXCEPT ![p] = @ \cup {"save"}]
    /\ UNCHANGED <<locals, error, epoch, step, eval_step, completed_steps,
                   max_train_steps, metric, result, hist, passed, trained,
                   evaluated>>
    /\ UNCHANGED <<envVars, preVars>>

\* lines 224-230: transformers.pipeline(..., model=unwrapped_model, ...);
\* reading a name the frame does not bind raises UnboundLocalError
Pipeline(p) ==
    /\ pc[p] = "pipeline"
    /\ IF "unwrapped_model" \in locals[p]
          THEN /\ pc' = [pc EXCEPT ![p] = "infer"]
               /\ locals' = [locals EXCEPT ![p] = @ \cup {"summarizer"}]
               /\ UNCHANGED error
          ELSE /\ pc' = [pc EXCEPT ![p] = "raised"]
               /\ error' = [error EXCEPT ![p] = "UnboundLocalError"]
               /\ UNCHANGED locals
    /\ UNCHANGED <<epoch, step, eval_step, completed_steps, max_train_steps,
                   metric, result, hist, passed, trained, evaluated, work,
                   writes>>
    /\ UNCHANGED <<envVars, preVars>>

\* lines 232-239: one random test sample is summarized and printed
Infer(p) ==
    /\ pc[p] = "infer"
    /\ pc' = [pc EXCEPT ![p] = "done"]
    /\ work' = [work EXCEPT ![p] = @ \cup {"inference"}]
    /\ UNCHANGED <<locals, error, epoch, step, eval_step, completed_steps,
                   max_train_steps, metric, result, hist, passed, trained,
                   evaluated, writes>>
    /\ UNCHANGED <<envVars, preVars>>

Next ==
    \E p \in AllProcs :
        \/ Start(p)
        \/ Guard(p)
        \/ Preprocess(p)
        \/ Setup(p)
        \/ Scheduler(p)
        \/ EpochHead(p)
        \/ Forward(p)
        \/ OptimizerStep(p)
        \/ EvalBegin(p)
        \/ Generate(p)
        \/ GatherTokens(p)
        \/ AddBatch(p)
        \/ Compute(p)
        \/ SaveCheck(p)
        \/ Unwrap(p)
        \/ SavePretrained(p)
        \/ Pipeline(p)
        \/ Infer(p)

Spec == Init /\ [][Next]_vars

\* LiveSpec: the launcher keeps the processes running, so as long as some
\* process can take a step, a step is taken
LiveSpec == Init /\ [][Next]_vars /\ WF_vars(Next)

\* ------------------------------------------------------ preprocess_function
Tokens == 0 .. MaxToken
SeqsUpTo(n) == UNION {[1 .. k -> Tokens] : k \in 0 .. n}
Batches == UNION {[1 .. b -> SeqsUpTo(MaxRawLen)] : b \in 1 .. MaxBatch}

\* truncation=True with max_length=n
Truncate(s, n) == SubSeq(s, 1, Min(Len(s), n))

PadTo(s, n, v) == [i \in 1 .. Max(Len(s), n) |-> IF i <= Len(s) THEN s[i] ELSE v]

RECURSIVE Longest(_)
Longest(batch) ==
    IF batch = <<>> THEN 0
    ELSE Max(Len(Head(batch)), Longest(Tail(batch)))

\* line 87: tokenizer(targets, max_length=..., padding=..., truncation=True)
\* on already tokenized targets: each sequence is cut to max_length, then
\* padded on the right with pad_token_id as the padding strategy says
Tokenizer(batch, max_length, padding) ==
    LET cut == [i \in 1 .. Len(batch) |-> Truncate(batch[i], max_length)]
    IN  CASE padding = "max_length" ->
                [i \in 1 .. Len(cut) |-> PadTo(cut[i], max_length, pad_token_id)]
          [] padding = "longest" ->
                [i \in 1 .. Len(cut) |-> PadTo(cut[i], Longest(cut), pad_token_id)]
          [] OTHER -> cut

\* ReplacePad with the branches of its conditional exchanged
ReplacePad_Swapped(label) ==
    [i \in 1 .. Len(label) |->
        IF label[i] = pad_token_id THEN label[i] ELSE IgnoreIndex]

\* line 91, inner comprehension: pad-token ids of one label become -100
ReplacePad(label) ==
    [i \in 1 .. Len(label) |->
        IF label[i] # pad_token_id THEN label[i] ELSE IgnoreIndex]

\* lines 90-92, outer comprehension
ReplacePadAll(batch) == [i \in 1 .. Len(batch) |-> ReplacePad(batch[i])]

\* lines 108-113: DataCollatorForSeq2Seq pads the labels of a batch on the
\* right to the longest of them with label_pad_token_id = -100
DataCollator(batch) ==
    [i \in 1 .. Len(batch) |-> PadTo(batch[i], Longest(batch), IgnoreIndex)]

PreInit ==
    /\ nproc = 1
    /\ \E m \in {"max_length", "longest", "do_not_pad"},
          t \in 1 .. MaxTargetLength :
          config = [MainConfig EXCEPT !.padding = m, !.max_target_length = t]
    /\ decoder_start_token_id = "2"
    /\ train_len = 0
    /\ train_yield = 0
    /\ eval_batches = 0
    /\ pad_token_id = 1    \* the pad id of the tokenizer of line 246's checkpoint
    /\ targets \in Batches
    /\ TrainInit
    /\ ppc = "call"
    /\ tokenized = <<>>
    /\ labels_input_ids = <<>>
    /\ model_labels = <<>>
    /\ collated = <<>>

\* lines 80-87: the targets are tokenized into labels
TokenizeTargets ==
    /\ ppc = "call"
    /\ ppc' = "substitute"
    /\ tokenized' = Tokenizer(targets, config.max_target_length, config.padding)
    /\ labels_input_ids' =
          Tokenizer(targets, config.max_target_length, config.padding)
    /\ UNCHANGED <<model_labels, collated>>
    /\ UNCHANGED <<envVars, trainVars>>

\* lines 89-92: only under "max_length" padding are pad ids replaced
Substitute ==
    /\ ppc = "substitute"
    /\ ppc' = "store"
    /\ IF config.padding = "max_length"
          THEN labels_input_ids' = ReplacePadAll(labels_input_ids)
          ELSE UNCHANGED labels_input_ids
    /\ UNCHANGED <<tokenized, model_labels, collated>>
    /\ UNCHANGED <<envVars, trainVars>>

\* lines 94-95: model_inputs["labels"] = labels["input_ids"]
Store ==
    /\ ppc = "store"
    /\ ppc' = "stored"
    /\ model_labels' = labels_input_ids
    /\ UNCHANGED <<tokenized, labels_input_ids, collated>>
    /\ UNCHANGED <<envVars, trainVars>>

\* lines 125-128: the dataloader hands the stored labels to data_collator
Collate ==
    /\ ppc = "stored"
    /\ ppc' = "collated"
    /\ collated' = DataCollator(model_labels)
    /\ UNCHANGED <<tokenized, labels_input_ids, model_labels>>
    /\ UNCHANGED <<envVars, trainVars>>

PreNext == TokenizeTargets \/ Substitute \/ Store \/ Collate

PreSpec == PreInit /\ [][PreNext]_vars

\* =================================================================== claims
Epochs == config.num_train_epochs

\* the batches <<e, 1>> .. <<e, k>> of epoch e, in order
EpochPairs(e, k) == [i \in 1 .. k |-> <<e, i>>]

\* C1: in every process the global step counter completed_steps never
\* exceeds max_train_steps = num_train_epochs * len(train_dataloader),
\* whatever number of batches the train iterator yields, and no training
\* step (forward/backward/optimizer.step) is in progress once the counter
\* has reached max_train_steps.
C1_StepBound ==
    \A p \in Procs :
        "completed_steps" \in locals[p] =>
            /\ completed_steps[p] <= max_train_steps[p]
            /\ pc[p] = "backward" => completed_steps[p] < max_train_steps[p]

\* the phase a position of train() belongs to
PhaseOf(at) ==
    CASE at \in {"start", "guard", "map", "setup", "sched"}
            -> "startup"
      [] at = "epoch" -> "loop"
      [] at \in {"train_iter", "backward"} -> "training"
      [] at \in {"eval_begin", "eval_iter", "gather_tokens", "gather_labels",
                 "compute"} -> "evaluating"
      [] at = "save_check" -> "after_loop"
      [] at \in {"barrier", "save"} -> "saving"
      [] at = "pipeline" -> "before_inference"
      [] at = "infer" -> "inference"
      [] OTHER -> "terminal"

PhaseInv(p) ==
    LET ph == PhaseOf(pc[p])
    IN  /\ ph = "training" =>
            /\ trained[p] = epoch[p] + 1
            /\ evaluated[p] = epoch[p]
            /\ epoch[p] < Epochs
        /\ ph = "evaluating" =>
            /\ trained[p] = epoch[p] + 1
            /\ evaluated[p] = epoch[p]
        /\ ph = "loop" => trained[p] = evaluated[p]
        /\ ph \in {"after_loop", "saving", "before_inference", "inference"} =>
            /\ trained[p] = Epochs
            /\ evaluated[p] = Epochs
        /\ "save" \in work[p] => evaluated[p] = Epochs
        /\ (ph = "inference" \/ "inference" \in work[p]) => "save" \in work[p]
        /\ pc[p] = "done" => "inference" \in work[p]

PhaseStep(p) ==
    LET ph == PhaseOf(pc[p])
        nx == PhaseOf(pc'[p])
    IN  /\ ph # nx =>
            \/ ph = "startup" /\ nx \in {"loop", "terminal"}
            \/ ph = "loop" /\ nx \in {"training", "after_loop"}
            \/ ph = "training" /\ nx = "evaluating"
            \/ ph = "evaluating" /\ nx = "loop"
            \/ ph = "after_loop" /\ nx \in {"saving", "before_inference"}
            \/ ph = "saving" /\ nx = "before_inference"
            \/ ph = "before_inference" /\ nx \in {"inference", "terminal"}
            \/ ph = "inference" /\ nx = "terminal"
        /\ ph = "terminal" =>
            /\ pc'[p] = pc[p]
            /\ completed_steps'[p] = completed_steps[p]
            /\ trained'[p] = trained[p]
            /\ evaluated'[p] = evaluated[p]
            /\ work'[p] = work[p]
            /\ hist'[p] = hist[p]
            /\ {w \in writes' : w[1] = p} = {w \in writes : w[1] = p}

\* C2: each process passes through its phases in a fixed order: every
\* epoch's training is followed by exactly one evaluation before the next
\* epoch's training starts, saving happens only after the last epoch's
\* evaluation, demonstration inference only after saving, and after
\* demonstration inference nothing more happens in that process.
C2_PhaseOrder ==
    /\ [](\A p \in Procs : PhaseInv(p))
    /\ [][\A p \in Procs : PhaseStep(p)]_vars

C2_Witness ==
    \E p \in Procs :
        /\ pc[p] = "done"
        /\ Epochs = 2
        /\ evaluated[p] = 2
        /\ "train_step" \in work[p]

\* C3: no process is serializing the model, or has written to the output
\* directory, before every process has finished its last evaluation and
\* entered the pre-save barrier, and only the primary process ever writes
\* to the output directory.
C3_SaveBarrier ==
    /\ \A p \in Procs :
          (pc[p] = "save" \/ \E w \in writes : w[1] = p) =>
              \A q \in Procs :
                  /\ evaluated[q] = Epochs
                  /\ hist[q] # <<>>
                  /\ hist[q][Len(hist[q])] = "barrier"
    /\ \A w \in writes : IsMainProcess(w[1])

\* C4: when decoder_start_token_id is None no process gets past the guard:
\* it performs no work of any kind, never binds or advances
\* completed_steps, writes nothing and enters no collective; when it is
\* not None the guard raises nothing.
C4_GuardAborts ==
    /\ decoder_start_token_id = "None" =>
          /\ writes = {}
          /\ \A p \in Procs :
                /\ pc[p] \in {"start", "guard", "raised"}
                /\ work[p] = {}
                /\ "completed_steps" \notin locals[p]
                /\ completed_steps[p] = 0
                /\ hist[p] = <<>>
                /\ pc[p] = "raised" => error[p] = "ValueError"
    /\ decoder_start_token_id # "None" =>
          \A p \in Procs : error[p] # "ValueError"

C4_Witness ==
    /\ decoder_start_token_id = "None"
    /\ Epochs > 0
    /\ train_yield > 0
    /\ \A p \in Procs : pc[p] = "raised" /\ error[p] = "ValueError"

\* C5: nothing is written when output_dir is None; a write happens only
\* with output_dir set and after all epochs and their evaluations have
\* completed in the writing process; and with output_dir set, once every
\* process has completed training and ended, the artifact has been written.
C5_WriteIff ==
    /\ config.output_dir = "None" => writes = {}
    /\ \A w \in writes :
          /\ config.output_dir # "None"
          /\ trained[w[1]] = Epochs
          /\ evaluated[w[1]] = Epochs
    /\ ( /\ config.output_dir # "None"
         /\ decoder_start_token_id # "None"
         /\ \A p \in Procs : pc[p] \in Terminal )
       => /\ <<0, "pytorch_model.bin">> \in writes
          /\ \A p \in Procs : <<p, "config.json">> \in writes

C5_Witness ==
    /\ config.output_dir # "None"
    /\ Epochs = 2
    /\ \A p \in Procs : pc[p] = "done" /\ evaluated[p] = 2
    /\ <<0, "pytorch_model.bin">> \in writes

CollectivesBlocking ==
    \A p \in Procs : \A q \in Procs :
        /\ passed[p] <= Len(hist[q])
        /\ \A k \in 1 .. passed[p] : hist[q][k] = hist[p][k]
        /\ (pc[p] \in Terminal /\ pc[q] \in Terminal) => hist[p] = hist[q]

AllEnded == \A p \in Procs : pc[p] \in Terminal

\* C6: a process has returned from a collective only if every process has
\* entered that same collective, all processes issue the same sequence of
\* collectives, and every process eventually reaches the end of its run
\* (returns from train() or leaves it by an exception).
C6_Collectives == []CollectivesBlocking /\ <>AllEnded

C6_Witness ==
    /\ nproc = 2
    /\ \A p \in Procs : pc[p] = "done" /\ passed[p] >= 5
    /\ \E k \in 1 .. Len(hist[0]) : hist[0][k] = "backward"
    /\ \E k \in 1 .. Len(hist[0]) : hist[0][k] = "gather_labels"

\* C7: under "max_length" padding the stored labels hold no pad-token id:
\* every position the tokenizer output held the pad id at is -100, every
\* other position is unchanged, and substituting again changes nothing.
C7_PadReplaced ==
    (config.padding = "max_length" /\ ppc \in {"stored", "collated"}) =>
        /\ Len(model_labels) = Len(targets)
        /\ ReplacePadAll(model_labels) = model_labels
        /\ \A i \in 1 .. Len(model_labels) :
              /\ Len(model_labels[i]) = Len(tokenized[i])
              /\ \A j \in 1 .. Len(model_labels[i]) :
                    /\ model_labels[i][j] # pad_token_id
                    /\ tokenized[i][j] = pad_token_id =>
                          model_labels[i][j] = IgnoreIndex
                    /\ tokenized[i][j] # pad_token_id =>
                          model_labels[i][j] = tokenized[i][j]

C7_Witness ==
    /\ config.padding = "max_length"
    /\ ppc = "stored"
    /\ \E i \in 1 .. Len(model_labels) :
          /\ Len(model_labels[i]) = 2
          /\ tokenized[i][1] # pad_token_id
          /\ model_labels[i][1] = tokenized[i][1]
          /\ tokenized[i][2] = pad_token_id
          /\ model_labels[i][2] = IgnoreIndex

\* number of tokens of target i the tokenizer keeps; positions after it are
\* padding
KeptLen(i) == Min(Len(targets[i]), config.max_target_length)

\* C8: for every padding mode, the stored labels never hold the raw
\* pad-token id at a padded position.
C8_NoRawPad ==
    ppc \in {"stored", "collated"} =>
        \A i \in 1 .. Len(model_labels) :
            \A j \in (KeptLen(i) + 1) .. Len(model_labels[i]) :
                model_labels[i][j] # pad_token_id

\* C9: in every process the metric accumulator is empty when an epoch's
\* evaluation pass starts, holds during the pass exactly the batches of
\* this epoch added so far, each once, and metric.compute covers exactly
\* the evaluation batches of the epoch it ends.
C9_MetricPerEpoch ==
    \A p \in Procs :
        /\ pc[p] = "eval_begin" => metric[p] = <<>>
        /\ pc[p] \in {"eval_iter", "compute"} =>
              metric[p] = EpochPairs(epoch[p], eval_step[p])
        /\ pc[p] \in {"gather_tokens", "gather_labels"} =>
              metric[p] = EpochPairs(epoch[p], eval_step[p] - 1)
        /\ evaluated[p] > 0 =>
              result[p] = EpochPairs(evaluated[p] - 1, eval_batches)

C9_Witness ==
    \E p \in Procs :
        /\ evaluated[p] = 2
        /\ result[p] = <<<<1, 1>>>>

\* C10: whenever a process is about to build the summarization pipeline,
\* unwrapped_model is bound, whether or not the save step ran, and no run
\* ends by reading it unbound.
C10_UnwrappedDefined ==
    \A p \in Procs :
        /\ pc[p] = "pipeline" => "unwrapped_model" \in locals[p]
        /\ error[p] # "UnboundLocalError"

====
